---- MODULE Spec2Model ----
(***************************************************************************)
(* Model of src/reproduce_lyrics.py: search_track_with_lyrics(), a linear  *)
(* scan over the first tracks of a library listing that fetches each       *)
(* track's lyrics over HTTP and stops at the first one whose synced lyrics *)
(* contain " / ".                                                          *)
(*                                                                         *)
(* Text is a sequence of one-character strings. A JSON value is a record   *)
(* [t, v]: t is its type and v its text (or <<n>> for a number). A JSON    *)
(* object is a function from its keys to JSON values.                      *)
(***************************************************************************)
EXTENDS Integers, Sequences, FiniteSets, TLC

\* ------------------------------------------------------------- bounds
\* Short libraries list 0..SmallLen tracks.
SmallLen == 2
\* Long libraries list ScanLimit-1 .. ScanLimit+Overshoot tracks.
Overshoot == 2
\* Long lyrics run PadOver characters past the snippet length.
PadOver == 5

\* -------------------------------------------------- program constants
\* a variant of ScanLimit that lets one more track through
ScanLimitOffByOne == 20 + 1
\* tracks[:20]
ScanLimit == 20
\* synced[:200]
SnippetLen == 200
\* r_lyrics.status_code == 200
StatusOK == 200

Min(a, b) == IF a < b THEN a ELSE b

\* ---------------------------------------------------------- JSON values
JStr(s) == [t |-> "str", v |-> s]
JNull == [t |-> "null", v |-> <<>>]
JNum(n) == [t |-> "num", v |-> <<n>>]
EmptyStr == JStr(<<>>)

\* Python truthiness of a JSON value (the operand of `or`)
Truthy(x) ==
    CASE x.t = "str" -> x.v # <<>>
      [] x.t = "null" -> FALSE
      [] x.t = "num" -> x.v # <<0>>
      [] OTHER -> TRUE

\* a `or` b
PyOr(a, b) == IF Truthy(a) THEN a ELSE b

\* dict.get(key, default)
Get(d, key, default) == IF key \in DOMAIN d THEN d[key] ELSE default

\* str(x) as an f-string shows it
Str(x) ==
    CASE x.t = "str" -> x.v
      [] x.t = "null" -> <<"N", "o", "n", "e">>
      [] OTHER -> x.v

\* s[:n]
Slice(s, n) == [i \in 1..Min(n, Len(s)) |-> s[i]]

\* sub in s, for two texts
Contains(sub, s) ==
    \E i \in 1..(Len(s) - Len(sub) + 1) : SubSeq(s, i, i + Len(sub) - 1) = sub

\* the romaji marker " / "
Marker == <<" ", "/", " ">>

\* --------------------------------------------------- urllib.parse.quote
Letters ==
    {"a", "b", "c", "d", "e", "f", "g", "h", "i", "j", "k", "l", "m",
     "n", "o", "p", "q", "r", "s", "t", "u", "v", "w", "x", "y", "z",
     "A", "B", "C", "D", "E", "F", "G", "H", "I", "J", "K", "L", "M",
     "N", "O", "P", "Q", "R", "S", "T", "U", "V", "W", "X", "Y", "Z"}
Digits == {"0", "1", "2", "3", "4", "5", "6", "7", "8", "9"}
AlwaysSafe == Letters \cup Digits \cup {"_", ".", "-", "~"}

\* a variant of Safe: quote's default safe='/'
SafeWithSlash == AlwaysSafe \cup {"/"}
\* safe='' : nothing is added to the always-safe characters
Safe == AlwaysSafe

\* the UTF-8 bytes of the characters paths are made of that are not
\* always safe ("KO" stands for the one character U+3053)
Utf8(c) ==
    CASE c = "/" -> <<47>>
      [] c = " " -> <<32>>
      [] c = "%" -> <<37>>
      [] c = "?" -> <<63>>
      [] c = "#" -> <<35>>
      [] c = "KO" -> <<227, 129, 147>>

HexDigit == <<"0", "1", "2", "3", "4", "5", "6", "7", "8", "9",
              "A", "B", "C", "D", "E", "F">>

\* '%{:02X}'.format(b)
PctByte(b) == <<"%", HexDigit[(b \div 16) + 1], HexDigit[(b % 16) + 1]>>

RECURSIVE PctBytes(_)
PctBytes(bs) == IF bs = <<>> THEN <<>> ELSE PctByte(Head(bs)) \o PctBytes(Tail(bs))

QuoteChar(c) == IF c \in Safe THEN <<c>> ELSE PctBytes(Utf8(c))

RECURSIVE quote(_)
quote(string) ==
    IF string = <<>> THEN <<>> ELSE QuoteChar(Head(string)) \o quote(Tail(string))

LibraryURL == <<"http://localhost:5000/api/library">>
LyricsBase == <<"http://localhost:5000/api/lyrics/">>
LyricsURL(encoded_path) == LyricsBase \o encoded_path
IsLyricsURL(url) == url # <<>> /\ Head(url) = Head(LyricsBase)

\* ------------------------------------------------ the service's answers
\* What the service at localhost:5000 answers is fixed when a run starts:
\* `library` is its answer to GET /api/library and lyrics[k] its answer to
\* the lyrics request for the k-th listed track. An answer is a raised
\* network failure or an HTTP response with a status and a body; a body is
\* unparseable ("bad"), a JSON number, a JSON list or a JSON object.
BadBody == [json |-> "bad", obj |-> <<>>]
NumBody == [json |-> "num", obj |-> <<>>]
ListBody(items) == [json |-> "list", obj |-> items]
DictBody(d) == [json |-> "dict", obj |-> d]
NetFail == [kind |-> "raise", status |-> 0, body |-> BadBody]
Http(status, body) == [kind |-> "http", status |-> status, body |-> body]

Pad(n) == [i \in 1..n |-> "x"]
Hello == <<"h", "i">>
AB == <<"A">> \o Marker \o <<"B">>
NearMiss == <<"a", " ", "/", "b">>
LongNone == Pad(SnippetLen + PadOver)
LongHead == AB \o Pad(SnippetLen + PadOver)
LongStraddle == Pad(SnippetLen - 2) \o Marker \o Pad(PadOver)
LongTail == Pad(SnippetLen + PadOver) \o Marker
Exact == Pad(SnippetLen - 3) \o Marker

LyricsTexts ==
    {<<>>, Hello, AB, NearMiss, LongNone, LongHead, LongStraddle, LongTail, Exact}

NotFound == Http(404, DictBody([syncedLyrics |-> JStr(AB)]))
NoLyrics == Http(StatusOK, DictBody([plainLyrics |-> JStr(AB)]))
Plain == Http(StatusOK, DictBody([syncedLyrics |-> JStr(Hello), plainLyrics |-> JStr(Hello)]))
Romaji == Http(StatusOK, DictBody([syncedLyrics |-> JStr(AB), plainLyrics |-> JNull]))

LyricsAnswers ==
    {NetFail, NotFound, Http(500, BadBody), Http(StatusOK, BadBody),
     Http(StatusOK, ListBody(<<>>)), NoLyrics,
     Http(StatusOK, DictBody([syncedLyrics |-> JNull])),
     Http(StatusOK, DictBody([syncedLyrics |-> JNum(7)])),
     Http(StatusOK, DictBody([syncedLyrics |-> JNum(0)]))}
    \cup {Http(StatusOK, DictBody([syncedLyrics |-> JStr(t)])) : t \in LyricsTexts}

MaxLen == ScanLimit + Overshoot
Lens == (0..SmallLen) \cup ((ScanLimit - 1)..MaxLen)
SpecialPos == (1..(SmallLen + 1)) \cup ((ScanLimit - 1)..(ScanLimit + 1))

\* answers that neither end the scan nor differ from track to track
Before == {NotFound, NoLyrics, Plain}
After == {NotFound, Romaji}

Sched(d1, s, r, d2) ==
    [k \in 1..MaxLen |-> IF k < s THEN d1 ELSE IF k = s THEN r ELSE d2]
RichSchedules ==
    {Sched(d1, s, r, d2) : d1 \in Before, s \in SpecialPos, r \in LyricsAnswers, d2 \in After}
UniformSchedules == {[k \in 1..MaxLen |-> d] : d \in Before}

PathPool ==
    << <<"a", "/", "b", " ", "c", ".", "m", "p", "3">>,
       <<"x", ".", "m", "p", "3">>,
       <<>>,
       <<"1", "0", "0", "%", "~", "KO", "?", "#", "_", "-", ".", "m", "p", "3">>,
       <<"y", ".", "m", "p", "3">> >>

Track(p) == [path |-> JStr(p)]
NoPathTrack == [title |-> JStr(<<"t">>)]
NullPathTrack == [path |-> JNull]
PoolTrack(k) == Track(PathPool[((k - 1) % Len(PathPool)) + 1])

Listing(n) == [k \in 1..n |-> PoolTrack(k)]
ListingWith(n, b, t) == [k \in 1..n |-> IF k = b THEN t ELSE PoolTrack(k)]

CleanLibraries ==
    {Http(StatusOK, ListBody(Listing(n))) : n \in Lens}
    \cup {Http(500, ListBody(Listing(SmallLen)))}
BrokenLibraries ==
    {NetFail, Http(StatusOK, BadBody), Http(500, BadBody), Http(StatusOK, NumBody)}
    \cup {Http(StatusOK, ListBody(ListingWith(n, b, t))) :
            n \in Lens, b \in SpecialPos, t \in {NoPathTrack, NullPathTrack}}

Scenarios ==
    (CleanLibraries \X RichSchedules)
    \cup (BrokenLibraries \X UniformSchedules)

\* ------------------------------------------------------------- state
VARIABLES
    library,    \* the service's answer to GET /api/library
    lyrics,     \* the service's answer to the lyrics request for track k
    pc,         \* "start", "for", "check", "except", "done", "exit"
    tracks,     \* r.json(), once parsed
    scan,       \* tracks[:20], the list the for loop iterates
    idx,        \* how many tracks the loop has taken from scan
    path,       \* track['path'] of the current track
    r_lyrics,   \* the response to the current track's lyrics request
    exc,        \* the exception in flight, "" when none
    requests,   \* every URL a GET was issued to, in order
    out,        \* the lines printed, in order
    exitCode    \* the process's exit status, -1 while it runs

vars == <<library, lyrics, pc, tracks, scan, idx, path, r_lyrics, exc,
          requests, out, exitCode>>

Line(kind, arg) == [kind |-> kind, arg |-> arg]

Init ==
    /\ \E sc \in Scenarios : library = sc[1] /\ lyrics = sc[2]
    /\ pc = "start"
    /\ tracks = BadBody
    /\ scan = <<>>
    /\ idx = 0
    /\ path = JNull
    /\ r_lyrics = NetFail
    /\ exc = ""
    /\ requests = <<>>
    /\ out = <<>>
    /\ exitCode = -1

\* variants of Catches: a handler for network errors alone, and one that
\* misses TypeError
CatchesOnlyNetwork(e) == e = "ConnectionError"
CatchesNoTypeError(e) ==
    e \in {"ConnectionError", "JSONDecodeError", "KeyError", "AttributeError"}
\* `except Exception` catches every exception the scan can raise
Catches(e) ==
    e \in {"ConnectionError", "JSONDecodeError", "KeyError", "TypeError", "AttributeError"}

\* a variant of Iterable that rejects an empty listing
IterableNonEmpty(body) == body.json = "list" /\ body.obj # <<>>
\* len(tracks) and tracks[:20] work on a JSON list
Iterable(body) == body.json = "list"

\* lines 11-18: fetch the library, parse it, announce its size, slice it
GetLibrary ==
    /\ pc = "start"
    /\ requests' = Append(requests, LibraryURL)
    /\ IF library.kind = "raise"
       THEN /\ exc' = "ConnectionError" /\ pc' = "except"
            /\ UNCHANGED <<tracks, scan, out>>
       ELSE IF library.body.json = "bad"
       THEN /\ exc' = "JSONDecodeError" /\ pc' = "except"
            /\ UNCHANGED <<tracks, scan, out>>
       ELSE IF ~Iterable(library.body)
       THEN /\ tracks' = library.body
            /\ exc' = "TypeError" /\ pc' = "except"
            /\ UNCHANGED <<scan, out>>
       ELSE /\ tracks' = library.body
            /\ out' = Append(out, Line("CheckingN", <<Len(library.body.obj)>>))
            /\ scan' = Slice(library.body.obj, ScanLimit)
            /\ pc' = "for"
            /\ UNCHANGED exc
    /\ UNCHANGED <<library, lyrics, idx, path, r_lyrics, exitCode>>

\* lines 18-27: take the next track, print it, encode its path, GET its lyrics
NextTrack ==
    /\ pc = "for"
    /\ IF idx >= Len(scan)
       THEN /\ pc' = "done"
            /\ UNCHANGED <<idx, path, r_lyrics, exc, requests, out>>
       ELSE LET track == scan[idx + 1] IN
            /\ idx' = idx + 1
            /\ IF "path" \notin DOMAIN track
               THEN /\ exc' = "KeyError" /\ pc' = "except"
                    /\ UNCHANGED <<path, r_lyrics, requests, out>>
               ELSE /\ path' = track["path"]
                    /\ out' = Append(out, Line("Checking", Str(track["path"])))
                    /\ IF track["path"].t # "str"
                       THEN /\ exc' = "TypeError" /\ pc' = "except"
                            /\ UNCHANGED <<r_lyrics, requests>>
                       ELSE /\ requests' = Append(requests, LyricsURL(quote(track["path"].v)))
                            /\ IF lyrics[idx + 1].kind = "raise"
                               THEN /\ exc' = "ConnectionError" /\ pc' = "except"
                                    /\ UNCHANGED r_lyrics
                               ELSE /\ r_lyrics' = lyrics[idx + 1]
                                    /\ pc' = "check"
                                    /\ UNCHANGED exc
    /\ UNCHANGED <<library, lyrics, tracks, scan, exitCode>>

\* a variant of SyncedOf without the `or ''`
SyncedWithoutOr(data) == Get(data, "syncedLyrics", EmptyStr)
\* synced = data.get('syncedLyrics', '') or ''
SyncedOf(data) == PyOr(Get(data, "syncedLyrics", EmptyStr), EmptyStr)

\* a variant of HasMarker that looks for the slash alone
LooseMarker(synced) == Contains(<<"/">>, synced)
\* " / " in synced
HasMarker(synced) == Contains(Marker, synced)

\* a variant of Snippet that prints the lyrics whole
WholeLyrics(synced) == synced
\* synced[:200]
Snippet(synced) == Slice(synced, SnippetLen)

\* a variant of IsOK that accepts every status
AnyStatus(r) == r.kind = "http"
\* r_lyrics.status_code == 200
IsOK(r) == r.status = StatusOK

\* a variant of AfterMatch that goes on with the loop
ContinueAfterMatch == "for"
\* `return` on a match: the function is over
AfterMatch == "done"

\* lines 29-42: look at the lyrics response
CheckLyrics ==
    /\ pc = "check"
    /\ IF ~IsOK(r_lyrics)
       THEN /\ pc' = "for"
            /\ UNCHANGED <<exc, out>>
       ELSE IF r_lyrics.body.json = "bad"
       THEN /\ exc' = "JSONDecodeError" /\ pc' = "except"
            /\ UNCHANGED out
       ELSE IF r_lyrics.body.json # "dict"
       THEN /\ exc' = "AttributeError" /\ pc' = "except"
            /\ UNCHANGED out
       ELSE LET synced == SyncedOf(r_lyrics.body.obj) IN
            IF synced.t # "str"
            THEN /\ exc' = "TypeError" /\ pc' = "except"
                 /\ UNCHANGED out
            ELSE IF HasMarker(synced.v)
            THEN /\ out' = out \o << Line("Found", Str(path)),
                                     Line("SnippetHead", <<>>),
                                     Line("Snippet", Snippet(synced.v)),
                                     Line("SnippetEnd", <<>>) >>
                 /\ pc' = AfterMatch
                 /\ UNCHANGED exc
            ELSE IF synced.v # <<>>
            THEN /\ out' = Append(out, Line("Progress", <<>>))
                 /\ pc' = "for"
                 /\ UNCHANGED exc
            ELSE /\ pc' = "for"
                 /\ UNCHANGED <<exc, out>>
    /\ UNCHANGED <<library, lyrics, tracks, scan, idx, path, r_lyrics,
                   requests, exitCode>>

\* lines 44-45: the handler prints the exception; one it does not catch
\* leaves the process with a traceback and status 1
Except ==
    /\ pc = "except"
    /\ IF Catches(exc)
       THEN /\ out' = Append(out, Line("Error", <<exc>>))
            /\ exc' = ""
            /\ pc' = "done"
            /\ UNCHANGED exitCode
       ELSE /\ pc' = "exit"
            /\ exitCode' = 1
            /\ UNCHANGED <<out, exc>>
    /\ UNCHANGED <<library, lyrics, tracks, scan, idx, path, r_lyrics, requests>>

\* lines 47-48: the function has returned and the script ends
Exit ==
    /\ pc = "done"
    /\ pc' = "exit"
    /\ exitCode' = 0
    /\ UNCHANGED <<library, lyrics, tracks, scan, idx, path, r_lyrics, exc,
                   requests, out>>

Next == GetLibrary \/ NextTrack \/ CheckLyrics \/ Except \/ Exit

Spec == Init /\ [][Next]_vars

\* each HTTP request returns or raises, and the interpreter keeps running
FairSpec == Spec /\ WF_vars(Next)

\* ------------------------------------------------------- observations
\* the lyrics requests issued so far, in order
LyricsRequests == SelectSeq(requests, IsLyricsURL)

\* how many lines of a kind were printed
Count(kind) == Cardinality({i \in DOMAIN out : out[i].kind = kind})
Matched == Count("Found") > 0
Errored == Count("Error") > 0

\* the tracks the library lists (none when it answers no list)
Listed ==
    IF library.kind = "http" /\ library.body.json = "list" THEN library.body.obj ELSE <<>>

\* the n-th listed track has a text path
HasPath(n) ==
    /\ n \in DOMAIN Listed
    /\ "path" \in DOMAIN Listed[n]
    /\ Listed[n]["path"].t = "str"

\* the request that fetches the lyrics of the n-th listed track
RequestFor(n) == LyricsURL(quote(Listed[n]["path"].v))

\* every lyrics request issued is the request for the track at its place
InListingOrder ==
    LET reqs == LyricsRequests IN
    \A k \in DOMAIN reqs : HasPath(k) /\ reqs[k] = RequestFor(k)

\* C1 as stated: a library of more than 20 tracks always gets exactly 20
\* lyrics requests, one for each of its first 20 tracks in listing order.
C1_Original ==
    (pc = "exit" /\ Len(Listed) > 20)
        => (Len(LyricsRequests) = 20 /\ InListingOrder)

\* C1 (amended): for a library of more than 20 tracks the lyrics requests
\* are at all times a prefix of the requests for its first 20 tracks in
\* listing order, never more than 20 and never one for the 21st or a later
\* track; a scan that no match and no error cut short has issued exactly 20.
C1_ScanCap ==
    Len(Listed) > 20 =>
        /\ Len(LyricsRequests) <= 20
        /\ InListingOrder
        /\ (pc = "exit" /\ ~Matched /\ ~Errored) => Len(LyricsRequests) = 20

C1_Witness ==
    /\ pc = "exit"
    /\ Len(Listed) > 20
    /\ Len(LyricsRequests) = 20
    /\ ~Matched /\ ~Errored

\* the text of an answer's syncedLyrics, when it is HTTP 200 with a JSON
\* object whose syncedLyrics is a string
HasSyncedText(a) ==
    /\ a.kind = "http" /\ a.status = 200 /\ a.body.json = "dict"
    /\ "syncedLyrics" \in DOMAIN a.body.obj
    /\ a.body.obj["syncedLyrics"].t = "str"
SyncedText(a) == a.body.obj["syncedLyrics"].v

\* the text holds a space, a slash and a space in a row
HasSlashBetweenSpaces(s) ==
    \E i \in 1..(Len(s) - 2) : s[i] = " " /\ s[i + 1] = "/" /\ s[i + 2] = " "

\* an answer that makes its track a match
RomajiAnswer(a) == HasSyncedText(a) /\ HasSlashBetweenSpaces(SyncedText(a))

\* the line that reports the match
FoundLine == out[CHOOSE i \in DOMAIN out : out[i].kind = "Found"]

\* C2: the scan stops at the first match: a 200 answer whose syncedLyrics
\* holds " / " is reported as the match once its track is checked, no lyrics
\* request follows it, the reported track is the earliest scanned one with
\* such an answer, and at most one match is reported.
C2_ShortCircuit ==
    /\ Count("Found") <= 1
    /\ \A k \in 1..(Len(LyricsRequests) - 1) : ~RomajiAnswer(lyrics[k])
    /\ (idx >= 1 /\ Len(LyricsRequests) = idx /\ RomajiAnswer(lyrics[idx])
           /\ pc \notin {"check", "except"})
          => (Matched /\ pc \in {"done", "exit"})
    /\ Matched =>
          /\ Len(LyricsRequests) = idx
          /\ RomajiAnswer(lyrics[idx])
          /\ HasPath(idx) /\ FoundLine.arg = Listed[idx]["path"].v
          /\ \A k \in 1..(idx - 1) : ~RomajiAnswer(lyrics[k])

C2_Witness ==
    /\ pc = "exit" /\ Matched
    /\ idx >= 2 /\ idx < Len(scan)
    /\ RomajiAnswer(lyrics[idx + 1])

\* an answer to a lyrics request that raises: the request itself, or the
\* parsing of a 200 body
RaisingAnswer(a) ==
    a.kind = "raise" \/ (a.status = 200 /\ a.body.json = "bad")

ErrorLines == {i \in DOMAIN out : out[i].kind = "Error"}

C3_Caught ==
    /\ Count("Error") <= 1
    /\ Errored =>
          /\ pc \in {"done", "exit"} /\ exc = ""
          /\ out[Len(out)].kind = "Error"
          /\ ~Matched
    /\ pc = "exit" => exitCode = 0
    /\ pc \in {"done", "exit"} =>
          /\ (library.kind = "raise" \/ library.body.json = "bad")
                => (Errored /\ LyricsRequests = <<>>)
          /\ (idx >= 1 /\ "path" \notin DOMAIN scan[idx])
                => (Errored /\ Len(LyricsRequests) = idx - 1)
          /\ (idx >= 1 /\ Len(LyricsRequests) = idx /\ RaisingAnswer(lyrics[idx]))
                => Errored

\* C3: one error boundary around the whole scan: when the library request,
\* the parsing of its body, the lookup of a track's path key, a lyrics
\* request or the parsing of a lyrics body raises, the exception is caught
\* once, one error line is printed, nothing is requested or reported after
\* it, and the program ends with status 0.
C3_ErrorBoundary ==
    /\ []C3_Caught
    /\ [][pc = "except" =>
            /\ pc' = "done"
            /\ out' = Append(out, Line("Error", <<exc>>))
            /\ requests' = requests]_vars
    /\ [][Errored => (requests' = requests /\ out' = out)]_vars

C3_Witness ==
    /\ pc = "exit" /\ Errored
    /\ idx >= 2 /\ idx < Len(scan)
    /\ RaisingAnswer(lyrics[idx])
    /\ RomajiAnswer(lyrics[idx + 1])

\* the library answered a JSON list of no tracks
EmptyLibrary ==
    library.kind = "http" /\ library.body.json = "list" /\ library.body.obj = <<>>

MovesOn(a) ==
    /\ a.kind = "http"
    /\ \/ a.status # 200
       \/ /\ a.body.json = "dict"
          /\ \/ "syncedLyrics" \notin DOMAIN a.body.obj
             \/ a.body.obj["syncedLyrics"].t = "null"
             \/ HasSyncedText(a) /\ ~HasSlashBetweenSpaces(SyncedText(a))

\* the scan of this library meets no match and no error: it lists tracks
\* and each of its first min(20, n) has a path and an answer to move on from
Uneventful ==
    /\ library.kind = "http" /\ library.body.json = "list"
    /\ \A k \in 1..Min(20, Len(Listed)) : HasPath(k) /\ MovesOn(lyrics[k])

SnippetLine == out[CHOOSE i \in DOMAIN out : out[i].kind = "Snippet"]

\* C6: when a match is reported the snippet is the prefix of that track's
\* syncedLyrics of length min(200, len(syncedLyrics)), and the reported
\* path is the path of the track whose lyrics were just fetched.
C6_Snippet ==
    Matched =>
        /\ Count("Snippet") = 1
        /\ r_lyrics = lyrics[idx] /\ HasSyncedText(r_lyrics)
        /\ Len(SnippetLine.arg) = Min(200, Len(SyncedText(r_lyrics)))
        /\ \A i \in 1..Len(SnippetLine.arg) : SnippetLine.arg[i] = SyncedText(r_lyrics)[i]
        /\ HasPath(idx) /\ FoundLine.arg = Listed[idx]["path"].v
        /\ LyricsRequests[Len(LyricsRequests)] = RequestFor(idx)

C6_Witness ==
    /\ Matched
    /\ Len(SyncedText(r_lyrics)) > 200
    /\ Len(SnippetLine.arg) = 200
    /\ ~HasSlashBetweenSpaces(SnippetLine.arg)

\* a 200 answer whose syncedLyrics is a non-empty text without " / "
PlainAnswer(a) ==
    HasSyncedText(a) /\ SyncedText(a) # <<>> /\ ~HasSlashBetweenSpaces(SyncedText(a))

\* a 200 answer whose syncedLyrics is empty, missing or null
EmptyAnswer(a) ==
    /\ a.kind = "http" /\ a.status = 200 /\ a.body.json = "dict"
    /\ \/ "syncedLyrics" \notin DOMAIN a.body.obj
       \/ a.body.obj["syncedLyrics"].t = "null"
       \/ a.body.obj["syncedLyrics"] = JStr(<<>>)

\* C7: a 200 answer with a non-empty syncedLyrics without " / " makes the
\* scan print one progress line, report no match and go on to the next
\* track in listing order if one remains in the first 20; with an empty,
\* missing or null syncedLyrics it goes on likewise and prints nothing.
C7_Progress ==
    /\ [][(pc = "check" /\ PlainAnswer(r_lyrics)) =>
            (out' = Append(out, Line("Progress", <<>>)) /\ pc' = "for")]_vars
    /\ [][(pc = "check" /\ EmptyAnswer(r_lyrics)) =>
            (out' = out /\ pc' = "for")]_vars
    /\ [][(pc = "for" /\ idx < Min(20, Len(Listed)) /\ HasPath(idx + 1)) =>
            /\ idx' = idx + 1
            /\ requests' = Append(requests, RequestFor(idx + 1))]_vars

C7_Witness ==
    /\ pc = "check" /\ idx >= 3
    /\ PlainAnswer(lyrics[idx - 1])
    /\ EmptyAnswer(lyrics[idx - 2])
    /\ out[Len(out) - 1].kind = "Progress"
    /\ Count("Progress") = 1

\* C8: every run ends, and it ends in exactly one of the outcomes match,
\* no match and error, each with exit status 0.
C8_Terminates ==
    /\ <>(pc = "exit")
    /\ [](pc = "exit" =>
            /\ exitCode = 0
            /\ exc = ""
            /\ Count("Found") + Count("Error") <= 1)
    /\ [][pc = "exit" => pc' = "exit"]_vars

C8_Witness ==
    /\ pc = "exit" /\ exitCode = 0
    /\ Errored
    /\ out[Len(out)].arg = <<"TypeError">>

\* the part of a lyrics URL after /api/lyrics/
Segment(url) == Tail(url)

\* C9: the path of each track is percent-encoded into the lyrics URL with
\* every reserved character escaped: the encoded segment holds no raw '/'
\* and no space, and "a/b c.mp3" becomes "a%2Fb%20c.mp3".
C9_Encoded ==
    LET reqs == LyricsRequests IN
    \A k \in DOMAIN reqs :
        LET seg == Segment(reqs[k]) IN
        /\ \A i \in DOMAIN seg : seg[i] \notin {"/", " ", "?", "#", "KO"}
        /\ (HasPath(k) /\ Listed[k]["path"].v = <<"a", "/", "b", " ", "c", ".", "m", "p", "3">>)
              => seg =
                    <<"a", "%", "2", "F", "b", "%", "2", "0", "c", ".", "m", "p", "3">>
        /\ (HasPath(k) /\ Listed[k]["path"].v =
                <<"1", "0", "0", "%", "~", "KO", "?", "#", "_", "-", ".", "m", "p", "3">>)
              => seg =
                    <<"1", "0", "0", "%", "2", "5", "~", "%", "E", "3", "%", "8", "1",
                      "%", "9", "3", "%", "3", "F", "%", "2", "3", "_", "-", ".", "m", "p", "3">>

C9_Witness ==
    /\ Len(LyricsRequests) >= 4
    /\ path.v = <<"1", "0", "0", "%", "~", "KO", "?", "#", "_", "-", ".", "m", "p", "3">>
    /\ Segment(LyricsRequests[1]) =
          <<"a", "%", "2", "F", "b", "%", "2", "0", "c", ".", "m", "p", "3">>

\* C10: a lyrics response whose status is not 200 makes the scan skip the
\* track and go on: its body is not parsed, it yields no match, no progress
\* line and no exception, and the scan is not aborted.
C10_SkipNon200 ==
    /\ [][(pc = "check" /\ r_lyrics.status # 200) =>
            /\ pc' = "for"
            /\ out' = out
            /\ exc' = "" /\ exc = ""
            /\ requests' = requests]_vars
    /\ [][(pc = "for" /\ idx >= 1 /\ Len(LyricsRequests) = idx
              /\ lyrics[idx].kind = "http" /\ lyrics[idx].status # 200
              /\ idx < Min(20, Len(Listed)) /\ HasPath(idx + 1)) =>
            requests' = Append(requests, RequestFor(idx + 1))]_vars

C10_Witness ==
    /\ pc = "check" /\ idx >= 3
    /\ lyrics[idx - 1] = Http(500, BadBody)
    /\ lyrics[idx - 2] = NotFound
    /\ ~Matched /\ ~Errored

====
